---- MODULE Spec2Model ----
(***************************************************************************)
(* Appliance-scheduling optimizer of the House Energy Resource             *)
(* Optimization Analyzer: the POST /api/optimize handler of src/api.py     *)
(* (optimize_schedule), its Time-of-Use pricing functions, and the 0/1     *)
(* integer program it hands to the PuLP/CBC solver.                        *)
(*                                                                         *)
(* Units.  Python floats are modelled as exact fixed-point integers:       *)
(*   power, base load, max power : hundredths of a kW   (2.0 kW = 200)     *)
(*   tariff rates                : hundredths of a rupee (4.50 = 450)      *)
(*   unrounded costs             : power * rate, i.e. 1/10000 rupee        *)
(*   rounded costs (round(v, 2)) : hundredths of a rupee                   *)
(*   percentages (round(v, 1))   : tenths of a percent                     *)
(*   solver variable values      : millionths (1.0 = One)                  *)
(* Hours are 0..23 as in the code; a Python list index h is the TLA+       *)
(* sequence index h + 1.  An appliance's id is its position in the         *)
(* request's list, so ids are unique; its display name takes no part in    *)
(* any computation and is left out.                                        *)
(***************************************************************************)
EXTENDS Integers, Sequences, FiniteSets, TLC

VARIABLES
    pc,         \* position of the request handler
    request,    \* the parsed JSON body of the current call
    prob,       \* the LpProblem built for the current call
    lpStatus,   \* LpStatus[prob.status] after prob.solve
    x,          \* value(x[app_id][h]) after prob.solve
    solves,     \* number of prob.solve invocations in the current call
    response,   \* what the handler returned
    probe,      \* a direct call of a pure function (function specification)
    served,     \* the calls the server has answered: <<request, response>> in order
    nb          \* the run of notebooks/optimization_engine.py

vars == <<pc, request, prob, lpStatus, x, solves, response, probe, served, nb>>

(***************************************************************************)
(* Bounds of the model                                                     *)
(***************************************************************************)
MaxAppliances == 2      \* longest appliance list of a request
MaxSearch == 600        \* largest SearchSize of the appliance list of a request
MaxCalls == 3           \* calls answered in a session
MaxProbe == 40          \* pricing is probed for hours -MaxProbe .. 23 + MaxProbe

(***************************************************************************)
(* Time-of-Use pricing                                                     *)
(***************************************************************************)
NumHours == 24
Hours == 0..(NumHours - 1)

RateOffPeak == 450
RatePeak == 850
RateNormal == 600

\* get_tou_price without the "hour < 6" half of the night band
GetTouPriceNoNight(hour) ==
    IF hour >= 22 THEN RateOffPeak
    ELSE IF hour >= 18 /\ hour < 22 THEN RatePeak
    ELSE RateNormal

\* get_tou_price: the rate of an hour
GetTouPrice(hour) ==
    IF hour >= 22 \/ hour < 6 THEN RateOffPeak
    ELSE IF hour >= 18 /\ hour < 22 THEN RatePeak
    ELSE RateNormal

\* get_tou_tier: the tier name of an hour
GetTouTier(hour) ==
    IF hour >= 22 \/ hour < 6 THEN "off-peak"
    ELSE IF hour >= 18 /\ hour < 22 THEN "peak"
    ELSE "normal"

(***************************************************************************)
(* Arithmetic helpers                                                      *)
(***************************************************************************)
\* Python's round(n / d, digits) on the exact quotient, for d > 0: nearest,
\* ties to even.
RoundDiv(n, d) ==
    LET q == n \div d
        r == n % d
    IN  IF 2 * r < d THEN q
        ELSE IF 2 * r > d THEN q + 1
        ELSE IF q % 2 = 0 THEN q ELSE q + 1

\* round(cost, 2): 1/10000 rupee to hundredths of a rupee
Round2(cost) == RoundDiv(cost, 100)

RECURSIVE SumTo(_, _)
\* sum(f(k) for k in range(n)); f is a function on 0..n-1
SumTo(f, n) == IF n <= 0 THEN 0 ELSE f[n - 1] + SumTo(f, n - 1)

RECURSIVE SumSeq(_)
SumSeq(s) == IF s = <<>> THEN 0 ELSE Head(s) + SumSeq(Tail(s))

Range(s) == {s[k] : k \in 1..Len(s)}

MinOf(S) == CHOOSE m \in S : \A e \in S : m <= e

RECURSIVE KSubsets(_, _)
\* the subsets of S with exactly k elements (none when k < 0 or k > |S|)
KSubsets(S, k) ==
    IF k < 0 \/ k > Cardinality(S) THEN {}
    ELSE IF k = 0 THEN {{}}
    ELSE LET e == CHOOSE e \in S : TRUE
         IN  {T \cup {e} : T \in KSubsets(S \ {e}, k - 1)} \cup KSubsets(S \ {e}, k)

RECURSIVE Binomial(_, _)
Binomial(n, k) ==
    IF k < 0 \/ k > n THEN 0
    ELSE IF k = 0 THEN 1
    ELSE (Binomial(n - 1, k - 1) * n) \div k

(***************************************************************************)
(* Requests                                                                *)
(***************************************************************************)
DefaultBaseLoadKw == 50
DefaultMaxPower == 800

DefaultBaseLoad == [k \in 1..NumHours |-> DefaultBaseLoadKw]

\* The appliances a request may list.
Catalogue ==
    { [power |-> 200, duration |-> 2,  preferredHour |-> 19],   \* peak start, two hours
      [power |-> 500, duration |-> 1,  preferredHour |-> 19],   \* heavy load at the peak
      [power |-> 499, duration |-> 1,  preferredHour |-> 22],   \* heavy load, already off-peak
      [power |-> 150, duration |-> 24, preferredHour |-> 7],    \* runs all day, block crossing midnight
      [power |-> 0,   duration |-> 24, preferredHour |-> 12],   \* draws nothing
      [power |-> 200, duration |-> 0,  preferredHour |-> 5],    \* zero duration
      [power |-> 200, duration |-> 25, preferredHour |-> 3],    \* longer than a day
      [power |-> 200, duration |-> -1, preferredHour |-> 3] }   \* negative duration

IsOffPeakIndex(k) == k - 1 >= 22 \/ k - 1 < 6

ZeroBaseLoad == [k \in 1..NumHours |-> 0]
NightBaseLoad ==
    [k \in 1..NumHours |-> IF k - 1 = 22 THEN 300 ELSE IF IsOffPeakIndex(k) THEN 400 ELSE 50]
NoonSpikeBaseLoad == [k \in 1..NumHours |-> IF k - 1 = 12 THEN 900 ELSE 0]
ShortBaseLoad == [k \in 1..(NumHours - 1) |-> 0]
LongBaseLoad == [k \in 1..(NumHours + 1) |-> IF k - 1 = NumHours THEN 900 ELSE 0]

\* The (baseLoad, maxPower) pairs a request may carry.
Environments ==
    { <<ZeroBaseLoad, 800>>,         \* no background load
      <<ZeroBaseLoad, 400>>,         \* ceiling below the heavy appliance
      <<NightBaseLoad, 800>>,        \* heavy load fits in one off-peak hour only
      <<NightBaseLoad, 400>>,        \* most off-peak hours full before any appliance runs
      <<NoonSpikeBaseLoad, 800>>,    \* hour 12 above the ceiling on its own
      <<ShortBaseLoad, 800>>,        \* 23 entries
      <<LongBaseLoad, 800>> }        \* 25 entries

ApplianceLists == UNION {[1..n -> Catalogue] : n \in 0..MaxAppliances}

\* number of ways to satisfy the duration row of one appliance
RowChoices(duration) == Binomial(NumHours, duration)

\* size of the search the duration rows leave: the product of the appliances'
\* RowChoices, a row that cannot be satisfied counting as one
SearchSize(appliances) ==
    LET c == [k \in 0..(Len(appliances) - 1) |->
                 IF RowChoices(appliances[k + 1].duration) = 0 THEN 1
                 ELSE RowChoices(appliances[k + 1].duration)]
        prod[k \in 0..Len(appliances)] == IF k = 0 THEN 1 ELSE c[k - 1] * prod[k - 1]
    IN  prod[Len(appliances)]

Requests ==
    { [appliances |-> apps, hasBaseLoad |-> TRUE, baseLoad |-> e[1],
       hasMaxPower |-> TRUE, maxPower |-> e[2]]
        : apps \in {a \in ApplianceLists : SearchSize(a) <= MaxSearch}, e \in Environments }
    \cup
    { [appliances |-> apps, hasBaseLoad |-> FALSE, baseLoad |-> <<>>,
       hasMaxPower |-> FALSE, maxPower |-> 0]
        : apps \in {a \in ApplianceLists : SearchSize(a) <= MaxSearch} }

\* the sets of k hours, computed once for the durations of the catalogue
HourSetsByDuration == {<<a.duration, KSubsets(Hours, a.duration)>> : a \in Catalogue}

\* the subsets of Hours with exactly k elements
HourSets(k) ==
    IF \E e \in HourSetsByDuration : e[1] = k
    THEN (CHOOSE e \in HourSetsByDuration : e[1] = k)[2]
    ELSE KSubsets(Hours, k)

\* data.get('baseLoad', [0.5] * 24) and data.get('maxPower', 8.0)
BaseLoadOf(req) == IF req.hasBaseLoad THEN req.baseLoad ELSE DefaultBaseLoad
MaxPowerOf(req) == IF req.hasMaxPower THEN req.maxPower ELSE DefaultMaxPower

NoRequest ==
    [appliances |-> <<>>, hasBaseLoad |-> FALSE, baseLoad |-> <<>>,
     hasMaxPower |-> FALSE, maxPower |-> 0]

(***************************************************************************)
(* Problem formulation (LpProblem "Appliance_Scheduling")                  *)
(***************************************************************************)
\* an objective that leaves the tariff out: one rate for every hour
ObjectiveFlatRate(appliances) ==
    [i \in 1..Len(appliances) |-> [h \in Hours |-> appliances[i].power * RateNormal]]

\* Total_Cost: the coefficient of x[i][h] is power * get_tou_price(h)
Objective(appliances) ==
    [i \in 1..Len(appliances) |-> [h \in Hours |-> appliances[i].power * GetTouPrice(h)]]

\* runtime rows that ask one hour of every appliance
RuntimeRowsSingleHour(appliances) ==
    [i \in 1..Len(appliances) |-> 1]

\* Runtime_i: sum over h of x[i][h] == duration
RuntimeRows(appliances) ==
    [i \in 1..Len(appliances) |-> appliances[i].duration]

\* capacity rows that leave the base load out
MaxPowerRowsNoBaseLoad(appliances, base_load, max_power) ==
    [coef  |-> [i \in 1..Len(appliances) |-> appliances[i].power],
     const |-> [h \in Hours |-> 0],
     rhs   |-> max_power]

\* MaxPower_h: sum over i of x[i][h] * power + base_load[h] <= max_power
\* the capacity rows with the default ceiling in place of max_power
MaxPowerRowsDefaultCeiling(appliances, base_load, max_power) ==
    [coef  |-> [i \in 1..Len(appliances) |-> appliances[i].power],
     const |-> [h \in Hours |-> base_load[h + 1]],
     rhs   |-> DefaultMaxPower]

MaxPowerRows(appliances, base_load, max_power) ==
    [coef  |-> [i \in 1..Len(appliances) |-> appliances[i].power],
     const |-> [h \in Hours |-> base_load[h + 1]],
     rhs   |-> max_power]

Formulate(appliances, base_load, max_power) ==
    [objective |-> Objective(appliances),
     runtime   |-> RuntimeRows(appliances),
     maxPower  |-> MaxPowerRows(appliances, base_load, max_power)]

NoProb ==
    [objective |-> <<>>, runtime |-> <<>>,
     maxPower  |-> [coef |-> <<>>, const |-> <<>>, rhs |-> 0]]

(***************************************************************************)
(* The solver (prob.solve(PULP_CBC_CMD(msg=0))) by its contract: an exact  *)
(* 0/1 solve of the program it is given.  It may return any optimal        *)
(* assignment.                                                             *)
(***************************************************************************)
One == 1000000

RECURSIVE Assignments(_, _)
\* per appliance 1..n a set of hours (those with x = 1) satisfying its Runtime row
Assignments(p, n) ==
    IF n = 0 THEN {<<>>}
    ELSE {Append(a, S) : a \in Assignments(p, n - 1), S \in HourSets(p.runtime[n])}

RECURSIVE ApplianceLoad(_, _, _, _)
\* sum over appliances 1..n of x[i][h] * power under assignment a
ApplianceLoad(p, a, h, n) ==
    IF n = 0 THEN 0
    ELSE (IF h \in a[n] THEN p.maxPower.coef[n] ELSE 0) + ApplianceLoad(p, a, h, n - 1)

\* MaxPower_h holds in every hour
CapacityOk(p, a) ==
    \A h \in Hours : ApplianceLoad(p, a, h, Len(a)) + p.maxPower.const[h] <= p.maxPower.rhs

RECURSIVE SumOver(_, _)
\* sum of f[e] over the elements e of S
SumOver(f, S) ==
    IF S = {} THEN 0
    ELSE LET e == CHOOSE e \in S : TRUE IN f[e] + SumOver(f, S \ {e})

RECURSIVE ObjectiveUpTo(_, _, _)
ObjectiveUpTo(p, a, n) ==
    IF n = 0 THEN 0 ELSE SumOver(p.objective[n], a[n]) + ObjectiveUpTo(p, a, n - 1)

\* Total_Cost under assignment a
ObjectiveValue(p, a) == ObjectiveUpTo(p, a, Len(a))

FeasibleAssignments(p) == {a \in Assignments(p, Len(p.runtime)) : CapacityOk(p, a)}

OptimalAssignments(p) ==
    LET valued == {<<a, ObjectiveValue(p, a)>> : a \in FeasibleAssignments(p)}
        best   == MinOf({v[2] : v \in valued})
    IN  {v[1] : v \in {w \in valued : w[2] = best}}

ValuesOf(S) == [h \in Hours |-> IF h \in S THEN One ELSE 0]

SolverOutcomes(p) ==
    LET optimal == OptimalAssignments(p)
    IN  IF optimal = {}
        THEN {[status |-> "Infeasible", x |-> <<>>]}
        ELSE {[status |-> "Optimal", x |-> [i \in 1..Len(a) |-> ValuesOf(a[i])]] : a \in optimal}

\* Outcomes outside the contract: a status that is neither Optimal nor
\* Infeasible, or an Optimal assignment in which the earliest variable of one
\* appliance that should be 1 comes back a hair below it.
OffContractOutcomes(p) ==
    {[status |-> s, x |-> <<>>] : s \in {"Not Solved", "Unbounded", "Undefined"}}
    \cup
    { [status |-> "Optimal",
       x |-> [o[1].x EXCEPT ![o[2]] =
                 [o[1].x[o[2]] EXCEPT ![MinOf({g \in Hours : o[1].x[o[2]][g] = One})] = One - 1]]]
        : o \in { u \in SolverOutcomes(p) \X (1..Len(p.runtime)) :
                    /\ u[1].status = "Optimal"
                    /\ \E g \in Hours : u[1].x[u[2]][g] = One } }

(***************************************************************************)
(* Result extraction and metrics                                           *)
(***************************************************************************)
HourList == [k \in 1..NumHours |-> k - 1]

\* [h for h in hours if value(x[app_id][h]) == 1]
ScheduledHours(xi) == SelectSeq(HourList, LAMBDA h : xi[h] = One)

\* min(scheduled_hours) if scheduled_hours else preferred_hour
OptimizedHour(scheduled_hours, preferred_hour) ==
    IF scheduled_hours # <<>> THEN MinOf(Range(scheduled_hours)) ELSE preferred_hour

\* the original cost without the % 24 on the hour
OriginalCostNoWrap(power, preferred_hour, duration) ==
    SumTo([k \in 0..(duration - 1) |-> power * GetTouPrice(preferred_hour + k)], duration)

\* sum(power * get_tou_price((preferred_hour + h) % 24) for h in range(duration))
OriginalCost(power, preferred_hour, duration) ==
    SumTo([k \in 0..(duration - 1) |-> power * GetTouPrice((preferred_hour + k) % NumHours)],
          duration)

\* sum(power * get_tou_price(h) for h in scheduled_hours)
OptimizedCost(power, scheduled_hours) ==
    SumSeq([k \in 1..Len(scheduled_hours) |-> power * GetTouPrice(scheduled_hours[k])])

\* round((savings / original_cost * 100) if original_cost > 0 else 0, 1)
SavingsPercentAsFraction(savings, original_cost) ==
    IF original_cost > 0 THEN RoundDiv(savings * 10, original_cost) ELSE 0

SavingsPercent(savings, original_cost) ==
    IF original_cost > 0 THEN RoundDiv(savings * 1000, original_cost) ELSE 0

\* sorted(scheduled_hours)
Sorted(scheduled_hours) == SortSeq(scheduled_hours, LAMBDA a, b : a < b)

\* the dict appended to results for the appliance at position id
ResultOf(app, id, xi) ==
    LET scheduled_hours == ScheduledHours(xi)
        optimized_hour  == OptimizedHour(scheduled_hours, app.preferredHour)
        original_cost   == OriginalCost(app.power, app.preferredHour, app.duration)
        optimized_cost  == OptimizedCost(app.power, scheduled_hours)
        savings         == original_cost - optimized_cost
    IN  [id             |-> id,
         power          |-> app.power,
         duration       |-> app.duration,
         originalHour   |-> app.preferredHour,
         optimizedHour  |-> optimized_hour,
         scheduledHours |-> Sorted(scheduled_hours),
         originalCost   |-> Round2(original_cost),
         optimizedCost  |-> Round2(optimized_cost),
         savings        |-> Round2(savings),
         savingsPercent |-> SavingsPercent(savings, original_cost),
         hasChange      |-> optimized_hour # app.preferredHour,
         originalTier   |-> GetTouTier(app.preferredHour),
         optimizedTier  |-> GetTouTier(optimized_hour)]

\* total_original_cost and total_optimized_cost after the loop (unrounded)
TotalOriginalCost(appliances) ==
    SumSeq([i \in 1..Len(appliances) |->
               OriginalCost(appliances[i].power, appliances[i].preferredHour,
                            appliances[i].duration)])

\* the total assigned in the loop where the code accumulates it
TotalOptimizedCostLastOnly(appliances, xs) ==
    IF Len(appliances) = 0 THEN 0
    ELSE OptimizedCost(appliances[Len(appliances)].power, ScheduledHours(xs[Len(appliances)]))

TotalOptimizedCost(appliances, xs) ==
    SumSeq([i \in 1..Len(appliances) |->
               OptimizedCost(appliances[i].power, ScheduledHours(xs[i]))])

SummaryOf(appliances, xs) ==
    LET total_original_cost  == TotalOriginalCost(appliances)
        total_optimized_cost == TotalOptimizedCost(appliances, xs)
        total_savings        == total_original_cost - total_optimized_cost
    IN  [originalCost   |-> Round2(total_original_cost),
         optimizedCost  |-> Round2(total_optimized_cost),
         dailySavings   |-> Round2(total_savings),
         monthlySavings |-> Round2(total_savings * 30),
         savingsPercent |-> SavingsPercent(total_savings, total_original_cost)]

(***************************************************************************)
(* Responses.  keys is the set of keys of the JSON object returned; a      *)
(* field whose key is absent holds a placeholder.                          *)
(***************************************************************************)
NoSummary ==
    [originalCost |-> 0, optimizedCost |-> 0, dailySavings |-> 0,
     monthlySavings |-> 0, savingsPercent |-> 0]

NoResponse ==
    [code |-> 0, keys |-> {}, error |-> "", results |-> <<>>, summary |-> NoSummary]

ErrorResponse(code, message) ==
    [code |-> code, keys |-> {"error"}, error |-> message,
     results |-> <<>>, summary |-> NoSummary]

\* an exception escaping the handler: Flask answers 500
UnhandledException(name) ==
    [code |-> 500, keys |-> {}, error |-> name, results |-> <<>>, summary |-> NoSummary]

\* results as a call starts with it: the list the call has carried over from
\* the call answered before it
CarriedResults == IF served = <<>> THEN <<>> ELSE served[Len(served)].response.results

\* results = []
NewResults == <<>>

SuccessResponse(appliances, xs) ==
    [code    |-> 200,
     keys    |-> {"success", "method", "results", "summary"},
     error   |-> "",
     results |-> NewResults \o [i \in 1..Len(appliances) |-> ResultOf(appliances[i], i, xs[i])],
     summary |-> SummaryOf(appliances, xs)]

\* f'Optimization failed: {LpStatus[prob.status]}'
FailureMessage(status) ==
    CASE status = "Not Solved" -> "Optimization failed: Not Solved"
      [] status = "Infeasible" -> "Optimization failed: Infeasible"
      [] status = "Unbounded"  -> "Optimization failed: Unbounded"
      [] status = "Undefined"  -> "Optimization failed: Undefined"
      [] OTHER                 -> "Optimization failed: Optimal"

\* extraction without the status check: unset variables read as 0
InterpretIgnoringStatus(appliances, status, xs) ==
    IF xs = <<>> THEN SuccessResponse(appliances, [i \in 1..Len(appliances) |-> ValuesOf({})])
    ELSE SuccessResponse(appliances, xs)

\* the status check (400 unless Optimal) and everything after it
Interpret(appliances, status, xs) ==
    IF status # "Optimal" THEN ErrorResponse(400, FailureMessage(status))
    ELSE SuccessResponse(appliances, xs)

(***************************************************************************)
(* The handler of POST /api/optimize, step by step                         *)
(***************************************************************************)
NoProbe ==
    [fn |-> "none", done |-> FALSE, hour |-> 0, rate |-> 0, tier |-> "", raised |-> FALSE,
     power |-> 0, preferredHour |-> 0, duration |-> 0, cost |-> 0]

Idle ==
    /\ pc = "idle"
    /\ request = NoRequest
    /\ prob = NoProb
    /\ lpStatus = "Not Solved"
    /\ x = <<>>
    /\ solves = 0
    /\ response = NoResponse

\* the notebook script before it runs
NoNotebook ==
    [pc |-> "idle", prob |-> [objective |-> <<>>, runtime |-> <<>>, coef |-> <<>>, rhs |-> 0],
     status |-> "Not Solved", x |-> <<>>, schedule |-> <<>>]

Init == Idle /\ probe = NoProbe /\ served = <<>> /\ nb = NoNotebook

\* data = request.get_json() and the three data.get calls
Receive ==
    /\ pc = "idle"
    /\ \E req \in Requests : request' = req
    /\ pc' = "received"
    /\ UNCHANGED <<prob, lpStatus, x, solves, response, probe, served, nb>>

\* if not appliances: return 400
Validate ==
    /\ pc = "received"
    /\ IF request.appliances = <<>>
       THEN /\ response' = ErrorResponse(400, "No appliances provided")
            /\ pc' = "done"
       ELSE /\ pc' = "validated"
            /\ UNCHANGED response
    /\ UNCHANGED <<request, prob, lpStatus, x, solves, probe, served, nb>>

\* variables, objective and constraints; base_load[h] raises IndexError on a
\* list shorter than 24
Build ==
    /\ pc = "validated"
    /\ IF Len(BaseLoadOf(request)) < NumHours
       THEN /\ response' = UnhandledException("IndexError")
            /\ pc' = "done"
            /\ UNCHANGED prob
       ELSE /\ prob' = Formulate(request.appliances, BaseLoadOf(request), MaxPowerOf(request))
            /\ pc' = "built"
            /\ UNCHANGED response
    /\ UNCHANGED <<request, lpStatus, x, solves, probe, served, nb>>

\* prob.solve(PULP_CBC_CMD(msg=0)), the solver keeping its contract
Solve ==
    /\ pc = "built"
    /\ \E o \in SolverOutcomes(prob) :
          /\ lpStatus' = o.status
          /\ x' = o.x
    /\ solves' = solves + 1
    /\ pc' = "solved"
    /\ UNCHANGED <<request, prob, response, probe, served, nb>>

\* prob.solve(PULP_CBC_CMD(msg=0)), the solver breaking its contract
SolveOffContract ==
    /\ pc = "built"
    /\ \E o \in OffContractOutcomes(prob) :
          /\ lpStatus' = o.status
          /\ x' = o.x
    /\ solves' = solves + 1
    /\ pc' = "solved"
    /\ UNCHANGED <<request, prob, response, probe, served, nb>>

\* the status check, the extraction loop and the jsonify of the result
Respond ==
    /\ pc = "solved"
    /\ response' = Interpret(request.appliances, lpStatus, x)
    /\ pc' = "done"
    /\ UNCHANGED <<request, prob, lpStatus, x, solves, probe, served, nb>>

\* the call is over: its locals are gone and the next request can arrive
Return ==
    /\ pc = "done"
    /\ pc' = "idle"
    /\ request' = NoRequest
    /\ prob' = NoProb
    /\ lpStatus' = "Not Solved"
    /\ x' = <<>>
    /\ solves' = 0
    /\ response' = NoResponse
    /\ UNCHANGED <<probe, served, nb>>

Next == Receive \/ Validate \/ Build \/ Solve \/ Respond \/ Return

Spec == Init /\ [][Next]_vars

NextAnySolver == Receive \/ Validate \/ Build \/ Solve \/ SolveOffContract \/ Respond \/ Return

SpecAnySolver == Init /\ [][NextAnySolver]_vars

(***************************************************************************)
(* A server answering several calls one after the other, with a solver     *)
(* that is a function of the problem it is given.                          *)
(***************************************************************************)
\* The requests of a session: at most one appliance, under the night load.
SessionRequests ==
    {r \in Requests : /\ Len(r.appliances) <= 1
                      /\ r.hasBaseLoad /\ r.baseLoad = NightBaseLoad /\ r.maxPower = 800}

\* a deterministic solver: one outcome per problem
DeterministicSolver(p) == CHOOSE o \in SolverOutcomes(p) : TRUE

ReceiveSession ==
    /\ pc = "idle"
    /\ Len(served) < MaxCalls
    /\ \E req \in SessionRequests : request' = req
    /\ pc' = "received"
    /\ UNCHANGED <<prob, lpStatus, x, solves, response, probe, served, nb>>

SolveDeterministic ==
    /\ pc = "built"
    /\ lpStatus' = DeterministicSolver(prob).status
    /\ x' = DeterministicSolver(prob).x
    /\ solves' = solves + 1
    /\ pc' = "solved"
    /\ UNCHANGED <<request, prob, response, probe, served, nb>>

\* the call is over and the client has its answer
ReturnRecorded ==
    /\ pc = "done"
    /\ pc' = "idle"
    /\ request' = NoRequest
    /\ prob' = NoProb
    /\ lpStatus' = "Not Solved"
    /\ x' = <<>>
    /\ solves' = 0
    /\ response' = NoResponse
    /\ served' = Append(served, [request |-> request, response |-> response])
    /\ UNCHANGED <<probe, nb>>

NextSession ==
    ReceiveSession \/ Validate \/ Build \/ SolveDeterministic \/ Respond \/ ReturnRecorded

SpecSession == Init /\ [][NextSession]_vars


(***************************************************************************)
(* The pure functions called directly: get_tou_price and get_tou_tier for  *)
(* an hour, and the original-cost sum of the extraction loop for one       *)
(* appliance.                                                              *)
(***************************************************************************)
ProbeHours == (0 - MaxProbe)..(NumHours - 1 + MaxProbe)

ProbePowers == {0, 150, 200, 500}

PricingProbes == {[NoProbe EXCEPT !.fn = "pricing", !.hour = h] : h \in ProbeHours}

OriginalCostProbes ==
    {[NoProbe EXCEPT !.fn = "original_cost", !.power = pw, !.preferredHour = ph, !.duration = d]
        : pw \in ProbePowers, ph \in Hours, d \in 1..NumHours}

\* neither pricing function checks its argument or raises
PricingRaises(hour) == FALSE

InitFunctions ==
    /\ Idle
    /\ probe \in PricingProbes \cup OriginalCostProbes
    /\ served = <<>>
    /\ nb = NoNotebook

PricingCall ==
    /\ probe.fn = "pricing"
    /\ ~probe.done
    /\ probe' = [probe EXCEPT !.rate = GetTouPrice(probe.hour),
                              !.tier = GetTouTier(probe.hour),
                              !.raised = PricingRaises(probe.hour),
                              !.done = TRUE]
    /\ UNCHANGED <<pc, request, prob, lpStatus, x, solves, response, served, nb>>

OriginalCostCall ==
    /\ probe.fn = "original_cost"
    /\ ~probe.done
    /\ probe' = [probe EXCEPT !.cost = OriginalCost(probe.power, probe.preferredHour,
                                                    probe.duration),
                              !.done = TRUE]
    /\ UNCHANGED <<pc, request, prob, lpStatus, x, solves, response, served, nb>>

NextFunctions == PricingCall \/ OriginalCostCall

SpecFunctions == InitFunctions /\ [][NextFunctions]_vars

(***************************************************************************)
(* notebooks/optimization_engine.py: the script formulates the program for *)
(* its APPLIANCES table, solves it and extracts the schedule.              *)
(***************************************************************************)
NbMaxMoved == 1     \* appliances in which an explored optimum departs from the greedy one

APPLIANCES ==
    << [name |-> "air_conditioner", power_kw |-> 150, daily_hours |-> 4,
        preferred_window |-> <<14, 23>>, must_be_continuous |-> FALSE],
       [name |-> "washing_machine", power_kw |-> 50,  daily_hours |-> 2,
        preferred_window |-> <<8, 22>>,  must_be_continuous |-> TRUE],
       [name |-> "water_heater",    power_kw |-> 200, daily_hours |-> 2,
        preferred_window |-> <<5, 9>>,   must_be_continuous |-> FALSE],
       [name |-> "dishwasher",      power_kw |-> 80,  daily_hours |-> 2,
        preferred_window |-> <<20, 24>>, must_be_continuous |-> TRUE],
       [name |-> "ev_charger",      power_kw |-> 350, daily_hours |-> 4,
        preferred_window |-> <<22, 6>>,  must_be_continuous |-> FALSE] >>

NbDefaultMaxPower == 800

\* get_tou_price of the notebook
NbGetTouPrice(hour) ==
    IF hour >= 22 \/ hour < 6 THEN RateOffPeak
    ELSE IF hour >= 18 /\ hour < 22 THEN RatePeak
    ELSE RateNormal

\* the program of optimize_appliance_schedule: the objective, the Runtime
\* rows and the MaxPower rows; the preferred_window and must_be_continuous
\* entries of an appliance are not read
NbFormulate(appliances, max_power) ==
    [objective |-> [i \in 1..Len(appliances) |->
                       [h \in Hours |-> appliances[i].power_kw * NbGetTouPrice(h)]],
     runtime   |-> [i \in 1..Len(appliances) |-> appliances[i].daily_hours],
     coef      |-> [i \in 1..Len(appliances) |-> appliances[i].power_kw],
     rhs       |-> max_power]

\* the hours in which appliance i costs least
NbCheapestHours(p, i) ==
    {h \in Hours : \A g \in Hours : p.objective[i][h] <= p.objective[i][g]}

\* no assignment that meets the Runtime rows costs less than this
NbLowerBound(p) ==
    SumSeq([i \in 1..Len(p.runtime) |->
               p.runtime[i] * MinOf({p.objective[i][h] : h \in Hours})])

NbLoad(p, a, h) == SumSeq([i \in 1..Len(a) |-> IF h \in a[i] THEN p.coef[i] ELSE 0])

NbFeasible(p, a) ==
    /\ \A i \in 1..Len(a) : a[i] \subseteq Hours /\ Cardinality(a[i]) = p.runtime[i]
    /\ \A h \in Hours : NbLoad(p, a, h) <= p.rhs

NbCost(p, a) ==
    SumSeq([i \in 1..Len(a) |-> SumOver([h \in Hours |-> p.objective[i][h]], a[i])])

RECURSIVE FirstK(_, _)
\* the k smallest elements of S (all of S when it has fewer)
FirstK(S, k) ==
    IF k <= 0 \/ S = {} THEN {}
    ELSE {MinOf(S)} \cup FirstK(S \ {MinOf(S)}, k - 1)

RECURSIVE NbGreedy(_, _)
\* appliances 1..n in turn take their earliest cheapest hours with room left
NbGreedy(p, n) ==
    IF n = 0 THEN <<>>
    ELSE LET before == NbGreedy(p, n - 1)
             room   == {h \in NbCheapestHours(p, n) :
                           NbLoad(p, before, h) + p.coef[n] <= p.rhs}
         IN  Append(before, FirstK(room, p.runtime[n]))

RECURSIVE NbMoved(_, _, _)
\* the assignments that differ from a in the hours of at most m appliances,
\* each appliance staying in its cheapest hours
NbMoved(p, a, m) ==
    IF m = 0 THEN {a}
    ELSE UNION { UNION { {[b EXCEPT ![i] = S] :
                             S \in KSubsets(NbCheapestHours(p, i), p.runtime[i])}
                         : i \in 1..Len(b) }
                 : b \in NbMoved(p, a, m - 1) }

\* Optimal assignments of p: feasible, at the lower bound of the cost.  The
\* solver may return any optimal assignment; these are the ones within
\* NbMaxMoved appliances of the greedy one.
NbOptimalAssignments(p) ==
    {a \in NbMoved(p, NbGreedy(p, Len(p.runtime)), NbMaxMoved) :
        NbFeasible(p, a) /\ NbCost(p, a) = NbLowerBound(p)}

NbSolverOutcomes(p) ==
    {[status |-> "Optimal", x |-> [i \in 1..Len(a) |-> ValuesOf(a[i])]]
        : a \in NbOptimalAssignments(p)}

\* schedule[app_name] = [h for h in range(24) if value(x[app_name][h]) == 1]
NbSchedule(xs) ==
    [i \in 1..Len(xs) |-> SelectSeq(HourList, LAMBDA h : xs[i][h] = One)]

\* prob, x = optimize_appliance_schedule(APPLIANCES): the formulation
NbBuild ==
    /\ nb.pc = "idle"
    /\ nb' = [nb EXCEPT !.pc = "built", !.prob = NbFormulate(APPLIANCES, NbDefaultMaxPower)]
    /\ UNCHANGED <<pc, request, prob, lpStatus, x, solves, response, probe, served>>

\* prob.solve(PULP_CBC_CMD(msg=0))
NbSolve ==
    /\ nb.pc = "built"
    /\ \E o \in NbSolverOutcomes(nb.prob) :
          nb' = [nb EXCEPT !.pc = "solved", !.status = o.status, !.x = o.x]
    /\ UNCHANGED <<pc, request, prob, lpStatus, x, solves, response, probe, served>>

\* the status check of the main block and analyze_optimization_results
NbAnalyze ==
    /\ nb.pc = "solved"
    /\ IF nb.status = "Optimal"
       THEN nb' = [nb EXCEPT !.pc = "analyzed", !.schedule = NbSchedule(nb.x)]
       ELSE nb' = [nb EXCEPT !.pc = "failed"]
    /\ UNCHANGED <<pc, request, prob, lpStatus, x, solves, response, probe, served>>

NextNotebook == NbBuild \/ NbSolve \/ NbAnalyze

SpecNotebook == Init /\ [][NextNotebook]_vars

(***************************************************************************)
(* Vocabulary of the properties                                            *)
(***************************************************************************)
OffPeakHours == {22, 23, 0, 1, 2, 3, 4, 5}
PeakHours == {18, 19, 20, 21}
NormalHours == {6, 7, 8, 9, 10, 11, 12, 13, 14, 15, 16, 17}

\* the handler has answered with a schedule
Succeeded == pc = "done" /\ "success" \in response.keys

\* the hours the answer gives appliance i
Scheduled(i) == Range(response.results[i].scheduledHours)

\* the cost of running an appliance of the given power in the hours S
CostIn(power, S) ==
    power * (  450 * Cardinality(S \cap OffPeakHours)
             + 850 * Cardinality(S \cap PeakHours)
             + 600 * Cardinality(S \cap NormalHours))

RECURSIVE ScheduleCost(_, _, _)
\* total cost of schedule sch (a set of hours per appliance) for appliances 1..n
ScheduleCost(apps, sch, n) ==
    IF n = 0 THEN 0 ELSE CostIn(apps[n].power, sch[n]) + ScheduleCost(apps, sch, n - 1)

RECURSIVE DrawUpTo(_, _, _, _)
\* draw in hour h of those of appliances 1..n that run in it under schedule sch
DrawUpTo(apps, sch, h, n) ==
    IF n = 0 THEN 0
    ELSE (IF h \in sch[n] THEN apps[n].power ELSE 0) + DrawUpTo(apps, sch, h, n - 1)

\* draw of the appliances running in hour h under schedule sch
Draw(apps, sch, h) == DrawUpTo(apps, sch, h, Len(apps))

\* schedule sch meets every per-hour capacity constraint of req
WithinCapacity(req, sch) ==
    \A h \in Hours : Draw(req.appliances, sch, h) + BaseLoadOf(req)[h + 1] <= MaxPowerOf(req)

\* schedule sch meets every duration and every per-hour capacity constraint of req
Admissible(req, sch) ==
    /\ \A i \in 1..Len(req.appliances) :
          sch[i] \subseteq Hours /\ Cardinality(sch[i]) = req.appliances[i].duration
    /\ WithinCapacity(req, sch)

RECURSIVE Schedules(_, _)
\* every way to give appliances 1..n of apps their number of hours
Schedules(apps, n) ==
    IF n = 0 THEN {<<>>}
    ELSE {Append(sch, S) : sch \in Schedules(apps, n - 1), S \in HourSets(apps[n].duration)}

\* for each request, the total costs of its admissible schedules
AdmissibleCosts ==
    { <<req, IF Len(BaseLoadOf(req)) < NumHours THEN {}
             ELSE { ScheduleCost(req.appliances, sch, Len(req.appliances))
                      : sch \in { s \in Schedules(req.appliances, Len(req.appliances))
                                    : WithinCapacity(req, s) } }>>
        : req \in Requests }

AdmissibleCostsOf(req) == (CHOOSE e \in AdmissibleCosts : e[1] = req)[2]

ReturnedSchedule == [i \in 1..Len(response.results) |-> Scheduled(i)]

(***************************************************************************)
(* Properties                                                              *)
(***************************************************************************)

\* C1: a returned schedule is cost-optimal: no schedule that meets every
\* duration constraint and every per-hour capacity constraint costs strictly
\* less, the cost being the sum of power(i) * price(h) over the scheduled hours.
C1_CostOptimal ==
    Succeeded =>
        /\ Admissible(request, ReturnedSchedule)
        /\ \A c \in AdmissibleCostsOf(request) :
              ScheduleCost(request.appliances, ReturnedSchedule, Len(request.appliances)) <= c

\* a success in which the capacity rows kept an appliance out of the cheapest
\* band: the optimum is not the unconstrained one
C1_Witness ==
    /\ Succeeded
    /\ \E i \in 1..Len(request.appliances) :
          /\ request.appliances[i].power = 500
          /\ Scheduled(i) \cap OffPeakHours = {}

\* C2: duration conservation: in a successful result every appliance has
\* exactly duration(i) distinct scheduled hours, each in 0..23.
C2_DurationConserved ==
    Succeeded =>
        \A i \in 1..Len(request.appliances) :
            /\ Len(response.results[i].scheduledHours) = request.appliances[i].duration
            /\ Cardinality(Scheduled(i)) = request.appliances[i].duration
            /\ Scheduled(i) \subseteq 0..23

\* a success with a two-hour appliance next to an all-day appliance
C2_Witness ==
    /\ Succeeded
    /\ Len(request.appliances) = 2
    /\ \E i \in 1..2 : request.appliances[i].duration = 2 /\ Cardinality(Scheduled(i)) = 2
    /\ \E i \in 1..2 : request.appliances[i].duration = 24 /\ Cardinality(Scheduled(i)) = 24

\* C3: capacity respected: in a successful result, in every hour the power of
\* the appliances scheduled in it plus base_load[h] is at most max_power.
C3_CapacityRespected ==
    Succeeded =>
        \A h \in 0..23 :
            Draw(request.appliances, ReturnedSchedule, h) + BaseLoadOf(request)[h + 1]
                <= MaxPowerOf(request)

\* a success in which some hour with background load and a running appliance
\* with positive power sits exactly at the ceiling
C3_Witness ==
    /\ Succeeded
    /\ \E h \in 0..23 :
          /\ BaseLoadOf(request)[h + 1] > 0
          /\ Draw(request.appliances, ReturnedSchedule, h) > 0
          /\ Draw(request.appliances, ReturnedSchedule, h) + BaseLoadOf(request)[h + 1]
                = MaxPowerOf(request)


\* the handler has answered after a solve that did not end Optimal
FailedSolve == pc = "done" /\ solves > 0 /\ lpStatus # "Optimal"

\* C4: whenever the solver returns a status other than Optimal, the answer is
\* an error that names that status and carries no per-appliance results and
\* no summary; the program was solved once, as formulated, and nothing of a
\* schedule is returned.
C4_NonOptimalIsError ==
    FailedSolve =>
        /\ response.keys = {"error"}
        /\ response.code = 400
        /\ (lpStatus = "Infeasible" => response.error = "Optimization failed: Infeasible")
        /\ (lpStatus = "Not Solved" => response.error = "Optimization failed: Not Solved")
        /\ (lpStatus = "Unbounded" => response.error = "Optimization failed: Unbounded")
        /\ (lpStatus = "Undefined" => response.error = "Optimization failed: Undefined")
        /\ response.results = <<>>
        /\ response.summary = NoSummary
        /\ solves = 1
        /\ prob.runtime = [i \in 1..Len(request.appliances) |-> request.appliances[i].duration]
        /\ prob.maxPower.rhs = MaxPowerOf(request)

\* an answer after the solver gave up on a program that has a schedule
C4_Witness ==
    /\ FailedSolve
    /\ lpStatus = "Undefined"
    /\ AdmissibleCostsOf(request) # {}

\* the request is malformed: no appliance, a duration outside 1..24, or a
\* base load that does not have exactly 24 entries
Malformed(req) ==
    \/ req.appliances = <<>>
    \/ \E i \in 1..Len(req.appliances) : req.appliances[i].duration <= 0
    \/ \E i \in 1..Len(req.appliances) : req.appliances[i].duration > 24
    \/ Len(BaseLoadOf(req)) # 24

\* C5: a malformed problem (empty appliance list, a duration <= 0, a duration
\* > 24, a base load without exactly 24 entries) is rejected with an
\* invalid-input error before the solver is invoked; no success is returned.
C5_MalformedRejected ==
    (pc = "done" /\ Malformed(request)) =>
        /\ "success" \notin response.keys
        /\ response.code \in {400, 500}
        /\ solves = 0

\* the solve ended Optimal but the hours extracted for some appliance are not
\* as many as its duration
ExtractionMismatch ==
    /\ pc = "done"
    /\ lpStatus = "Optimal"
    /\ \E i \in 1..Len(request.appliances) :
          Cardinality({h \in Hours : x[i][h] = One}) # request.appliances[i].duration

\* C6: on an Optimal status, if the hours extracted for some appliance are not
\* duration(i) many, the handler reports a solver-contract failure: it returns
\* no success and substitutes nothing for the missing hours.
C6_MismatchReported ==
    ExtractionMismatch => /\ "success" \notin response.keys
                          /\ "error" \in response.keys

\* C7: for every hour in 0..23 the rate is 4.50 and the tier off-peak in 22..23
\* and 0..5, 8.50 and peak in 18..21, 6.00 and normal in 6..17; the price and
\* the tier functions place every hour in the same band.
C7_TariffBands ==
    (probe.fn = "pricing" /\ probe.done /\ probe.hour \in 0..23) =>
        /\ ~probe.raised
        /\ (probe.hour \in OffPeakHours => probe.rate = 450 /\ probe.tier = "off-peak")
        /\ (probe.hour \in PeakHours => probe.rate = 850 /\ probe.tier = "peak")
        /\ (probe.hour \in NormalHours => probe.rate = 600 /\ probe.tier = "normal")
        /\ (probe.rate = 450 <=> probe.tier = "off-peak")
        /\ (probe.rate = 850 <=> probe.tier = "peak")
        /\ (probe.rate = 600 <=> probe.tier = "normal")

\* the pricing functions have answered for an early-morning hour
C7_Witness ==
    /\ probe.fn = "pricing"
    /\ probe.done
    /\ probe.hour = 3
    /\ probe.rate = 450

\* C8: the pricing model yields an error, and neither a rate nor a tier, for
\* every hour outside 0..23.
C8_OutOfRangeIsError ==
    (probe.fn = "pricing" /\ probe.done /\ probe.hour \notin 0..23) =>
        /\ probe.raised
        /\ probe.rate = 0
        /\ probe.tier = ""

\* the hours of the block of d consecutive hours from hour ph, modulo 24
Block(ph, d) == {h \in 0..23 : (h - ph + 24) % 24 < d}

\* C9: the original cost is the sum of power * price over the block of
\* duration consecutive hours from the preferred hour, taken modulo 24; it is
\* a function of the appliance's power, preferred hour and duration alone.
C9_OriginalCostWraps ==
    (probe.fn = "original_cost" /\ probe.done) =>
        probe.cost = CostIn(probe.power, Block(probe.preferredHour, probe.duration))

\* an original cost computed for a block that crosses midnight and ends in
\* the daytime band
C9_Witness ==
    /\ probe.fn = "original_cost"
    /\ probe.done
    /\ probe.power > 0
    /\ probe.preferredHour = 23
    /\ probe.duration = 10
    /\ probe.cost = probe.power * (7 * 450 + 3 * 600)

\* the tier of an hour, by the tariff table
TierOfHour(h) ==
    IF h \in OffPeakHours THEN "off-peak" ELSE IF h \in PeakHours THEN "peak" ELSE "normal"

\* C10: in a successful result, for every appliance optimizedHour is the
\* minimum of scheduledHours, scheduledHours is ascending, hasChange is
\* exactly (optimizedHour # preferredHour) and optimizedTier is the tier of
\* optimizedHour.
C10_RepresentativeHour ==
    Succeeded =>
        \A i \in 1..Len(request.appliances) :
            LET r == response.results[i]
            IN  /\ r.optimizedHour \in Scheduled(i)
                /\ \A h \in Scheduled(i) : r.optimizedHour <= h
                /\ \A k \in 1..(Len(r.scheduledHours) - 1) :
                      r.scheduledHours[k] < r.scheduledHours[k + 1]
                /\ r.hasChange = (r.optimizedHour # request.appliances[i].preferredHour)
                /\ r.optimizedTier = TierOfHour(r.optimizedHour)

Abs(n) == IF n < 0 THEN 0 - n ELSE n

\* field, counted in units of `unit`, is exact rounded to the nearest unit
IsRounding(field, exact, unit) == 2 * Abs(unit * field - exact) <= unit

\* the schedule in which every appliance runs from its preferred hour
NaiveSchedule(apps) ==
    [i \in 1..Len(apps) |-> Block(apps[i].preferredHour, apps[i].duration)]

\* unrounded original and optimized cost of appliance i of the answered request
ExactOriginal(i) ==
    CostIn(request.appliances[i].power, NaiveSchedule(request.appliances)[i])
ExactOptimized(i) == CostIn(request.appliances[i].power, Scheduled(i))

\* C11 as stated: for every appliance of a successful result, savings is
\* originalCost - optimizedCost and savingsPercent is exactly
\* savings / originalCost * 100 when originalCost > 0, and 0 otherwise.
C11_SavingsExact ==
    Succeeded =>
        \A i \in 1..Len(request.appliances) :
            LET r == response.results[i]
            IN  /\ r.savings = r.originalCost - r.optimizedCost
                /\ IF r.originalCost > 0
                   THEN r.savingsPercent * r.originalCost = r.savings * 1000
                   ELSE r.savingsPercent = 0

\* C11: for every appliance of a successful result, savings is the unrounded
\* original cost minus the unrounded optimized cost, rounded to two decimals,
\* and savingsPercent is that unrounded difference over the unrounded original
\* cost times 100, rounded to one decimal, when the original cost is positive
\* and 0 otherwise; no answer is a division by zero.
C11_SavingsRounded ==
    /\ response.error # "ZeroDivisionError"
    /\ Succeeded =>
        \A i \in 1..Len(request.appliances) :
            LET r        == response.results[i]
                original == ExactOriginal(i)
                savings  == ExactOriginal(i) - ExactOptimized(i)
            IN  /\ IsRounding(r.savings, savings, 100)
                /\ IF original > 0
                   THEN IsRounding(r.savingsPercent, savings * 1000, original)
                   ELSE r.savingsPercent = 0

\* a success listing an appliance that draws nothing, whose original cost is
\* 0, next to one whose percentage is not a whole number of tenths
C11_Witness ==
    /\ Succeeded
    /\ \E i \in 1..Len(request.appliances) :
          /\ request.appliances[i].power = 0
          /\ ExactOriginal(i) = 0
          /\ response.results[i].savingsPercent = 0
    /\ \E i \in 1..Len(request.appliances) :
          /\ ExactOriginal(i) > 0
          /\ response.results[i].savingsPercent * ExactOriginal(i)
                # (ExactOriginal(i) - ExactOptimized(i)) * 1000

\* unrounded totals of the answered request
ExactTotalOriginal ==
    ScheduleCost(request.appliances, NaiveSchedule(request.appliances), Len(request.appliances))
ExactTotalOptimized ==
    ScheduleCost(request.appliances, ReturnedSchedule, Len(request.appliances))

RECURSIVE SumOfResults(_, _)
\* the sum of originalCost ("original") or optimizedCost over results 1..n
SumOfResults(field, n) ==
    IF n = 0 THEN 0
    ELSE (IF field = "original" THEN response.results[n].originalCost
          ELSE response.results[n].optimizedCost) + SumOfResults(field, n - 1)

\* C12 as stated: in a successful result the summary's originalCost and
\* optimizedCost are the sums of the per-appliance costs, dailySavings is
\* their difference, monthlySavings is dailySavings * 30 and savingsPercent
\* is exactly dailySavings / originalCost * 100 when originalCost > 0, and 0
\* otherwise.
C12_SummaryExact ==
    Succeeded =>
        LET t == response.summary
        IN  /\ t.originalCost = SumOfResults("original", Len(response.results))
            /\ t.optimizedCost = SumOfResults("optimized", Len(response.results))
            /\ t.dailySavings = t.originalCost - t.optimizedCost
            /\ t.monthlySavings = t.dailySavings * 30
            /\ IF t.originalCost > 0
               THEN t.savingsPercent * t.originalCost = t.dailySavings * 1000
               ELSE t.savingsPercent = 0

\* C12: in a successful result every field of the summary is a rounding of
\* the unrounded totals: originalCost and optimizedCost of the sums of the
\* unrounded per-appliance costs, dailySavings of their difference and
\* monthlySavings of 30 times that difference, each to two decimals, and
\* savingsPercent of the difference over the original total times 100, to one
\* decimal, when the original total is positive and 0 otherwise.
C12_SummaryRounded ==
    Succeeded =>
        LET t       == response.summary
            savings == ExactTotalOriginal - ExactTotalOptimized
        IN  /\ IsRounding(t.originalCost, ExactTotalOriginal, 100)
            /\ IsRounding(t.optimizedCost, ExactTotalOptimized, 100)
            /\ IsRounding(t.dailySavings, savings, 100)
            /\ IsRounding(t.monthlySavings, savings * 30, 100)
            /\ IF ExactTotalOriginal > 0
               THEN IsRounding(t.savingsPercent, savings * 1000, ExactTotalOriginal)
               ELSE t.savingsPercent = 0

\* a success of two appliances in which the summary's monthlySavings is not
\* 30 times its dailySavings
C12_Witness ==
    /\ Succeeded
    /\ Len(request.appliances) = 2
    /\ response.summary.monthlySavings # response.summary.dailySavings * 30

\* C13: with a deterministic solver, in any sequence of calls the answer to a
\* call is the answer every earlier call with the same input got, whatever
\* calls were answered in between, and between two calls nothing of a call
\* is left: every variable of the handler is as it was before the first call.
C13_Stateless ==
    /\ pc = "done" =>
          \A k \in 1..Len(served) :
              served[k].request = request => served[k].response = response
    /\ pc = "idle" => Idle

\* a third call answered with a schedule, its input that of the first call
\* and not that of the second
C13_Witness ==
    /\ Succeeded
    /\ Len(served) = 2
    /\ served[1].request = request
    /\ served[2].request # request
    /\ "success" \in served[2].response.keys

\* Scenario A: one appliance of 2.0 kW for two hours, preferred at hour 19,
\* no base load, ceiling 8.0 kW
ScenarioA ==
    [appliances  |-> << [power |-> 200, duration |-> 2, preferredHour |-> 19] >>,
     hasBaseLoad |-> TRUE, baseLoad |-> ZeroBaseLoad,
     hasMaxPower |-> TRUE, maxPower |-> 800]

\* C14: Scenario A succeeds with both scheduled hours in the off-peak band
\* (22..23 or 0..5), optimizedCost 18.0, originalCost 34.0 and savings 16.0.
C14_ScenarioA ==
    (pc = "done" /\ request = ScenarioA) =>
        /\ Succeeded
        /\ Len(response.results) = 1
        /\ Cardinality(Scheduled(1)) = 2
        /\ Scheduled(1) \subseteq OffPeakHours
        /\ response.results[1].optimizedCost = 1800
        /\ response.results[1].originalCost = 3400
        /\ response.results[1].savings = 1600

\* Scenario A answered, the appliance moved out of the peak into the night
C14_Witness ==
    /\ pc = "done"
    /\ request = ScenarioA
    /\ response.code = 200
    /\ response.results[1].originalTier = "peak"
    /\ response.results[1].optimizedTier = "off-peak"

\* Scenario B: two appliances of 5 kW for one hour each, no base load
IsScenarioB(req) ==
    /\ Len(req.appliances) = 2
    /\ \A i \in 1..2 : req.appliances[i].power = 500 /\ req.appliances[i].duration = 1
    /\ req.hasBaseLoad
    /\ req.baseLoad = ZeroBaseLoad
    /\ req.hasMaxPower

\* C15: Scenario B with ceiling 8.0 kW succeeds with the two appliances in two
\* distinct hours; with ceiling 4.0 kW the solve reports Infeasible and the
\* answer is an error, not a schedule.
C15_ScenarioB ==
    (pc = "done" /\ IsScenarioB(request)) =>
        /\ request.maxPower = 800 =>
              /\ Succeeded
              /\ Cardinality(Scheduled(1)) = 1
              /\ Cardinality(Scheduled(2)) = 1
              /\ Scheduled(1) \cap Scheduled(2) = {}
        /\ request.maxPower = 400 =>
              /\ lpStatus = "Infeasible"
              /\ response.keys = {"error"}
              /\ response.error = "Optimization failed: Infeasible"
              /\ response.results = <<>>

\* Scenario B answered under the 8.0 kW ceiling, both appliances in the night
C15_Witness ==
    /\ Succeeded
    /\ IsScenarioB(request)
    /\ request.maxPower = 800
    /\ Scheduled(1) \cup Scheduled(2) \subseteq OffPeakHours
    /\ Cardinality(Scheduled(1) \cup Scheduled(2)) = 2

\* the answer to Scenario B under the 4.0 kW ceiling
C15_InfeasibleReached ==
    /\ pc = "done"
    /\ IsScenarioB(request)
    /\ request.maxPower = 400
    /\ response.code = 400

\* hour h is inside the window from hour w[1] to hour w[2], both counted as
\* inside; a window with w[1] > w[2] wraps past midnight
InWindow(h, w) == IF w[1] <= w[2] THEN w[1] <= h /\ h <= w[2] ELSE h >= w[1] \/ h <= w[2]

\* C16: in the schedule of optimize_appliance_schedule for the APPLIANCES
\* table every appliance runs only in hours inside its preferred_window.
C16_WindowsRespected ==
    nb.pc = "analyzed" =>
        \A i \in 1..Len(APPLIANCES) :
            \A h \in Range(nb.schedule[i]) : InWindow(h, APPLIANCES[i].preferred_window)

\* C17: in the schedule of optimize_appliance_schedule every appliance whose
\* must_be_continuous flag is true runs in one block of daily_hours
\* consecutive hours, whichever optimal assignment the solver returns.
C17_ContinuousRuns ==
    nb.pc = "analyzed" =>
        \A i \in 1..Len(APPLIANCES) :
            APPLIANCES[i].must_be_continuous =>
                \E start \in Hours :
                    Range(nb.schedule[i]) = Block(start, APPLIANCES[i].daily_hours)

\* draw in hour h when every appliance runs its duration consecutive hours
\* from its preferred hour, modulo 24 (an hour met twice counting twice)
NaiveDraw(apps, h) ==
    SumSeq([i \in 1..Len(apps) |->
               apps[i].power
                 * Cardinality({k \in 0..(apps[i].duration - 1) :
                                   (apps[i].preferredHour + k) % 24 = h})])

\* the naive schedule of req satisfies the capacity constraint in every hour
NaiveWithinCapacity(req) ==
    /\ Len(BaseLoadOf(req)) >= 24
    /\ \A h \in 0..23 :
          NaiveDraw(req.appliances, h) + BaseLoadOf(req)[h + 1] <= MaxPowerOf(req)

\* C18 as stated: whenever the naive schedule satisfies the capacity
\* constraint in every hour, optimize succeeds and the total optimized cost
\* is at most the total original cost.
C18_NaiveFeasibleSucceeds ==
    (pc = "done" /\ NaiveWithinCapacity(request)) =>
        /\ Succeeded
        /\ response.summary.dailySavings >= 0

\* C18: for a non-empty appliance list with every duration in 0..24, if the
\* naive schedule satisfies the capacity constraint in every hour then
\* optimize succeeds and the total optimized cost is at most the total
\* original cost (dailySavings >= 0).
C18_NaiveBoundsOptimized ==
    ( /\ pc = "done"
      /\ request.appliances # <<>>
      /\ \A i \in 1..Len(request.appliances) : request.appliances[i].duration \in 0..24
      /\ NaiveWithinCapacity(request) ) =>
        /\ Succeeded
        /\ ExactTotalOptimized <= ExactTotalOriginal
        /\ response.summary.optimizedCost <= response.summary.originalCost
        /\ response.summary.dailySavings >= 0

\* a success under a feasible naive schedule in which one appliance pays
\* more than at its preferred hour while the total does not
C18_Witness ==
    /\ Succeeded
    /\ NaiveWithinCapacity(request)
    /\ response.summary.dailySavings > 0
    /\ \E i \in 1..Len(request.appliances) : response.results[i].savings < 0

\* a success in which the naive schedule violates capacity and the total
\* optimized cost exceeds the total original cost
C18_NegativeTotalReached ==
    /\ Succeeded
    /\ Len(BaseLoadOf(request)) >= 24
    /\ ~NaiveWithinCapacity(request)
    /\ response.summary.dailySavings < 0

\* some hour's base load alone is above the ceiling
Overloaded(req) ==
    /\ Len(BaseLoadOf(req)) >= 24
    /\ \E h \in 0..23 : BaseLoadOf(req)[h + 1] > MaxPowerOf(req)

====
